---------------------------- MODULE Spec2Model ----------------------------
(***************************************************************************)
(* bevy_svg: the vertex buffers of src/render/vertex_buffer.rs (Vertex,    *)
(* VertexConstructor, the BufferExt merge operations and the conversion    *)
(* to a Mesh) and the asset loader of src/loader.rs.                       *)
(*                                                                         *)
(* f32 values are stood for by small integers.  IndexType is u32; the      *)
(* model keeps the width of the index arithmetic but scales the modulus    *)
(* 2^32 down to IndexModulus so that vertex lists as long as the modulus   *)
(* can be enumerated.  Vec::len() is a usize, wider than IndexType; it is  *)
(* an unbounded natural here.                                              *)
(***************************************************************************)
EXTENDS Integers, Sequences, FiniteSets, TLC

\* Stands for 2^32, the number of values of IndexType (u32).
IndexModulus == 8
\* The longest vertex list a merge may build (above IndexModulus, so that
\* both the wrap of an index and the truncation of a length happen).
MaxVertices == 10
\* The longest source sequence handed to one extend call.
MaxSources == 2
\* The number of new_vertex calls followed.
MaxCalls == 3
\* The number of documents loaded concurrently.
NumLoads == 2

VARIABLES
    overflow_checks, \* build profile: u32 `+` panics on overflow (TRUE) or wraps
    self,            \* the destination VertexBuffers: [vertices, indices]
    iter,            \* extend: the sources not yet consumed by the for loop
    offset,          \* extend: the running offset (u32)
    pc,              \* "idle" | "extend_loop" | "converted"
    panicked,        \* the thread unwound from an arithmetic overflow panic
    mesh,            \* the Mesh returned by convert, or NoMesh
    call             \* history: the operation last entered, its destination on
                     \* entry and its arguments

mergeVars == <<overflow_checks, self, iter, offset, pc, panicked, mesh, call>>

VARIABLES
    ctor,            \* the live VertexConstructor: [color, transform], or NoCtor
    log              \* history: the new_vertex calls made, in order

ctorVars == <<ctor, log>>

VARIABLES
    lpc,             \* per load: the statement of load's async block to run next
    bytes,           \* per load: the `bytes` argument
    load_context,    \* per load: its LoadContext: [path, labeled_assets]
    locals,          \* per load: the block's locals: [svg, mesh, mesh_handle]
    result,          \* per load: what the future returned, or Pending
    steps            \* history, per load: the statements completed, in order

loadVars == <<lpc, bytes, load_context, locals, result, steps>>

vars == <<mergeVars, ctorVars, loadVars>>

--------------------------------------------------------------------------
\* Vertex { position: [f32; 3], color: [f32; 4] }
Vertex(position, color) == [position |-> position, color |-> color]

\* lyon_tessellation::VertexBuffers<Vertex, IndexType>
VertexBuffers(vertices, indices) == [vertices |-> vertices, indices |-> indices]

\* VertexBuffers::new()
EmptyBuffers == VertexBuffers(<<>>, <<>>)

\* `self.vertices.len() as u32`: the cast keeps the low bits of the usize.
AsIndexType(n) == n % IndexModulus

\* u32 `a + b` without overflow checks: wrapping.
WrappingAdd(a, b) == (a + b) % IndexModulus

\* u32 `a + b` overflows.
AddOverflows(a, b) == a + b >= IndexModulus

\* Every index is strictly less than the vertex count.
ValidBuffers(b) == \A k \in 1..Len(b.indices) : b.indices[k] < Len(b.vertices)

--------------------------------------------------------------------------
(* Buffer pairs handed to the merge operations *)

\* A vertex as a tessellator emits it; k tells the vertices apart.
SampleVertex(k) == Vertex(<<k, k + 1, 0>>, <<k, 0, 0, 1>>)

\* Valid buffer pairs of 0, 1, 2 and 3 vertices.
Dot == VertexBuffers(<<SampleVertex(1)>>, <<>>)
Sliver == VertexBuffers(<<SampleVertex(2), SampleVertex(3)>>, <<0, 1, 0>>)
Triangle ==
    VertexBuffers(<<SampleVertex(4), SampleVertex(5), SampleVertex(6)>>, <<0, 1, 2>>)
SourceBuffers == {EmptyBuffers, Dot, Sliver, Triangle}

\* The ordered source sequences of one extend call.
SourceSeqs == UNION {[1..n -> SourceBuffers] : n \in 0..MaxSources}

RECURSIVE TotalVertices(_)
TotalVertices(srcs) ==
    IF srcs = <<>> THEN 0
    ELSE Len(Head(srcs).vertices) + TotalVertices(Tail(srcs))

--------------------------------------------------------------------------
(* BufferExt for VertexBuffers *)

\* `indices.iter().map(|i| i + offset)` consumed by Vec::extend: the mapped
\* values in order; with overflow checks the first overflowing addition
\* panics and the values pushed before it stay in the vector.
MapAddOffset(indices, off, checks) ==
    LET bad == {k \in 1..Len(indices) : AddOverflows(indices[k], off)}
        stop == IF checks /\ bad # {}
                THEN CHOOSE k \in bad : \A j \in bad : k <= j
                ELSE Len(indices) + 1
    IN  [out |-> [k \in 1..(stop - 1) |-> WrappingAdd(indices[k], off)],
         panicked |-> stop <= Len(indices)]

\* extend_one reading the offset only after the vertices were appended.
extend_one_offset_after_append(this, item, checks) ==
    LET vertices == this.vertices \o item.vertices
        off == AsIndexType(Len(vertices))
        mapped == MapAddOffset(item.indices, off, checks)
    IN  [self |-> VertexBuffers(vertices, this.indices \o mapped.out),
         panicked |-> mapped.panicked]

\* extend_one appending the source's indices as they are.
extend_one_unshifted(this, item, checks) ==
    [self |-> VertexBuffers(this.vertices \o item.vertices,
                            this.indices \o item.indices),
     panicked |-> FALSE]

\* fn extend_one(&mut self, item: VertexBuffers)
extend_one(this, item, checks) ==
    LET off == AsIndexType(Len(this.vertices))
        vertices == this.vertices \o item.vertices
        mapped == MapAddOffset(item.indices, off, checks)
    IN  [self |-> VertexBuffers(vertices, this.indices \o mapped.out),
         panicked |-> mapped.panicked]

\* extend: `let mut offset = self.vertices.len() as u32;`
extend_offset_init(this) == AsIndexType(Len(this.vertices))

\* The loop body without `offset += buf.vertices.len() as u32`.
extend_body_stale_offset(this, off, buf, checks) ==
    LET mapped == MapAddOffset(buf.indices, off, checks)
    IN  [self |-> VertexBuffers(this.vertices \o buf.vertices,
                                this.indices \o mapped.out),
         offset |-> off,
         panicked |-> mapped.panicked]

\* The loop body advancing the offset by at least one per source.
extend_body_offset_at_least_one(this, off, buf, checks) ==
    LET mapped == MapAddOffset(buf.indices, off, checks)
        len == IF buf.vertices = <<>> THEN 1 ELSE Len(buf.vertices)
        inc == AsIndexType(len)
        incPanics == checks /\ AddOverflows(off, inc)
    IN  [self |-> VertexBuffers(this.vertices \o buf.vertices,
                                this.indices \o mapped.out),
         offset |-> IF mapped.panicked \/ incPanics THEN off
                    ELSE WrappingAdd(off, inc),
         panicked |-> mapped.panicked \/ incPanics]

\* The loop body with additions that panic on overflow in every build
\* (checked_add(..).unwrap()).
extend_body_checked_add(this, off, buf, checks) ==
    LET mapped == MapAddOffset(buf.indices, off, TRUE)
        inc == AsIndexType(Len(buf.vertices))
        incPanics == AddOverflows(off, inc)
    IN  [self |-> VertexBuffers(this.vertices \o buf.vertices,
                                this.indices \o mapped.out),
         offset |-> IF mapped.panicked \/ incPanics THEN off
                    ELSE WrappingAdd(off, inc),
         panicked |-> mapped.panicked \/ incPanics]

\* extend: one iteration of `for buf in iter { ... }`
extend_body(this, off, buf, checks) ==
    LET vertices == this.vertices \o buf.vertices
        mapped == MapAddOffset(buf.indices, off, checks)
        inc == AsIndexType(Len(buf.vertices))
        incPanics == checks /\ AddOverflows(off, inc)
    IN  [self |-> VertexBuffers(vertices, this.indices \o mapped.out),
         offset |-> IF mapped.panicked \/ incPanics THEN off
                    ELSE WrappingAdd(off, inc),
         panicked |-> mapped.panicked \/ incPanics]

--------------------------------------------------------------------------
(* Convert<Mesh> for VertexBuffers *)

NoMesh == [none |-> TRUE]

\* Mesh::new(primitive_topology): no attributes, no indices.
Mesh_new(topology) ==
    [primitive_topology |-> topology, attributes |-> <<>>, indices |-> NoMesh]

\* mesh.set_indices(Some(Indices::U32(v)))
set_indices(m, v) == [m EXCEPT !.indices = [U32 |-> v]]

\* mesh.set_attribute(name, values): insert or replace the named attribute.
set_attribute(m, name, values) ==
    LET kept == SelectSeq(m.attributes, LAMBDA a : a.name # name)
    IN  [m EXCEPT !.attributes = Append(kept, [name |-> name, values |-> values])]

\* mesh.attribute(name) is Some(..).
has_attribute(m, name) == \E k \in 1..Len(m.attributes) : m.attributes[k].name = name

\* The values of a mesh attribute that is set.
attribute(m, name) ==
    m.attributes[CHOOSE k \in 1..Len(m.attributes) : m.attributes[k].name = name].values

\* convert that never sets the color attribute.
convert_without_colors(this) ==
    LET positions == [k \in 1..Len(this.vertices) |-> this.vertices[k].position]
        m0 == Mesh_new("TriangleList")
        m1 == set_indices(m0, this.indices)
    IN  set_attribute(m1, "Vertex_Position", positions)

\* fn convert(self) -> Mesh
convert(this) ==
    LET positions == [k \in 1..Len(this.vertices) |-> this.vertices[k].position]
        colors == [k \in 1..Len(this.vertices) |-> this.vertices[k].color]
        m0 == Mesh_new("TriangleList")
        m1 == set_indices(m0, this.indices)
        m2 == set_attribute(m1, "Vertex_Position", positions)
    IN  set_attribute(m2, "Vertex_Color", colors)

--------------------------------------------------------------------------
(* The merge pipeline as a state machine *)

NoCall == [op |-> "none", self0 |-> EmptyBuffers, items |-> <<>>]

MergeInit ==
    /\ overflow_checks \in BOOLEAN
    /\ self \in {EmptyBuffers, Triangle}
    /\ iter = <<>>
    /\ offset = 0
    /\ pc = "idle"
    /\ panicked = FALSE
    /\ mesh = NoMesh
    /\ call = NoCall

\* A caller invokes self.extend_one(item).
ExtendOneCall ==
    /\ pc = "idle" /\ ~panicked
    /\ \E item \in SourceBuffers :
        /\ Len(self.vertices) + Len(item.vertices) <= MaxVertices
        /\ LET r == extend_one(self, item, overflow_checks)
           IN  /\ self' = r.self
               /\ panicked' = r.panicked
               /\ call' = [op |-> "extend_one", self0 |-> self, items |-> <<item>>]
    /\ UNCHANGED <<overflow_checks, iter, offset, pc, mesh>>
    /\ UNCHANGED <<ctorVars, loadVars>>

\* A caller invokes self.extend(iter): the offset is read, the loop entered.
ExtendCall ==
    /\ pc = "idle" /\ ~panicked
    /\ \E srcs \in SourceSeqs :
        /\ Len(self.vertices) + TotalVertices(srcs) <= MaxVertices
        /\ iter' = srcs
        /\ call' = [op |-> "extend", self0 |-> self, items |-> srcs]
    /\ offset' = extend_offset_init(self)
    /\ pc' = "extend_loop"
    /\ UNCHANGED <<overflow_checks, self, panicked, mesh>>
    /\ UNCHANGED <<ctorVars, loadVars>>

\* The for loop takes the next source and runs its body.
ExtendLoop ==
    /\ pc = "extend_loop" /\ ~panicked
    /\ iter # <<>>
    /\ LET r == extend_body(self, offset, Head(iter), overflow_checks)
       IN  /\ self' = r.self
           /\ offset' = r.offset
           /\ panicked' = r.panicked
    /\ iter' = Tail(iter)
    /\ UNCHANGED <<overflow_checks, pc, mesh, call>>
    /\ UNCHANGED <<ctorVars, loadVars>>

\* The iterator is exhausted: extend returns.
ExtendReturn ==
    /\ pc = "extend_loop" /\ ~panicked
    /\ iter = <<>>
    /\ pc' = "idle"
    /\ UNCHANGED <<overflow_checks, self, iter, offset, panicked, mesh, call>>
    /\ UNCHANGED <<ctorVars, loadVars>>

\* A caller invokes self.convert(): the buffers are moved into the call;
\* the variable self keeps their last value for reference only.
ConvertCall ==
    /\ pc = "idle" /\ ~panicked
    /\ mesh' = convert(self)
    /\ pc' = "converted"
    /\ call' = [op |-> "convert", self0 |-> self, items |-> <<>>]
    /\ UNCHANGED <<overflow_checks, self, iter, offset, panicked>>
    /\ UNCHANGED <<ctorVars, loadVars>>

MergeNext ==
    \/ ExtendOneCall
    \/ ExtendCall
    \/ ExtendLoop
    \/ ExtendReturn
    \/ ConvertCall

--------------------------------------------------------------------------
(* Reference results the merge claims are stated against *)

\* The destination on entry to the last call, its vertex count, its sources.
Dest0 == call.self0
N0 == Len(call.self0.vertices)

\* Mathematical (unbounded) shift of every index by n.
Shifted(indices, n) == [k \in 1..Len(indices) |-> indices[k] + n]

\* The concatenation the merge is meant to build: each source's indices
\* shifted by the vertex count of everything before it.
RECURSIVE ExactMerge(_, _)
ExactMerge(d, srcs) ==
    IF srcs = <<>> THEN d
    ELSE ExactMerge(
            VertexBuffers(d.vertices \o Head(srcs).vertices,
                          d.indices \o Shifted(Head(srcs).indices, Len(d.vertices))),
            Tail(srcs))

\* extend_one called once per source, in order, each on the result of the
\* one before; a panic ends the sequence.
RECURSIVE Sequential(_, _, _)
Sequential(d, srcs, checks) ==
    IF srcs = <<>> THEN [self |-> d, panicked |-> FALSE]
    ELSE LET r == extend_one(d, Head(srcs), checks)
         IN  IF r.panicked THEN r ELSE Sequential(r.self, Tail(srcs), checks)

\* The extend loop run over srcs from the state st = [self, offset, panicked].
RECURSIVE RunLoop(_, _, _)
RunLoop(st, srcs, checks) ==
    IF srcs = <<>> \/ st.panicked THEN st
    ELSE RunLoop(extend_body(st.self, st.offset, Head(srcs), checks), Tail(srcs), checks)

\* The sources the extend loop has consumed so far.
Consumed == SubSeq(call.items, 1, Len(call.items) - Len(iter))

NonEmptyOnly(srcs) == SelectSeq(srcs, LAMBDA b : b # EmptyBuffers)

\* No index addition and no offset increment of the last call can overflow.
FitsIndexType == N0 + TotalVertices(call.items) < IndexModulus

--------------------------------------------------------------------------
\* C1 (index validity): in every state the merge operations reach from a
\* valid destination with valid sources -- between loop iterations, after a
\* return and after a panic alike -- every index of the destination is
\* strictly less than the destination's vertex count.
C1_IndexValidity == ValidBuffers(self)

\* An extend call over two indexed sources has returned with more vertices
\* than IndexType has values.
C1_Witness ==
    /\ call.op = "extend" /\ pc = "idle"
    /\ call.items = <<Sliver, Triangle>>
    /\ Len(self.vertices) > IndexModulus

\* C2 as claimed: after extend_one on a destination of n vertices the vertex
\* list is the old one followed by the source's, and the index list is the
\* old one followed by every source index i as i + n, for any source.
C2_AsClaimed ==
    (call.op = "extend_one" /\ ~panicked) =>
        /\ self.vertices = Dest0.vertices \o call.items[1].vertices
        /\ self.indices = Dest0.indices \o Shifted(call.items[1].indices, N0)

\* C2 (offset correctness of extend_one), amended: the vertex list is the old
\* one followed by the source's and the old indices stay in place in every
\* case; the appended indices are i + n provided n + i stays below 2^32 for
\* every source index i.  In general a call that returns appends
\* (i + n) modulo 2^32, and with overflow checks the call panics instead
\* when (n modulo 2^32) + i reaches 2^32 for some source index i.
C2_OffsetCorrectness ==
    call.op = "extend_one" =>
        LET src == call.items[1]
            fits == \A k \in 1..Len(src.indices) : src.indices[k] + N0 < IndexModulus
        IN  /\ self.vertices = Dest0.vertices \o src.vertices
            /\ Len(self.indices) >= Len(Dest0.indices)
            /\ SubSeq(self.indices, 1, Len(Dest0.indices)) = Dest0.indices
            /\ fits => /\ ~panicked
                       /\ self.indices = Dest0.indices \o Shifted(src.indices, N0)
            /\ ~panicked =>
                  self.indices = Dest0.indices \o
                        [k \in 1..Len(src.indices) |-> (src.indices[k] + N0) % IndexModulus]
            /\ panicked <=>
                  /\ overflow_checks
                  /\ \E k \in 1..Len(src.indices) :
                        (N0 % IndexModulus) + src.indices[k] >= IndexModulus

\* extend_one appended a triangle after three existing vertices.
C2_Witness ==
    /\ call.op = "extend_one" /\ ~panicked
    /\ call.items = <<Triangle>>
    /\ N0 = 3
    /\ SubSeq(self.indices, Len(Dest0.indices) + 1, Len(self.indices)) = <<3, 4, 5>>

\* C3 as claimed: extend(D, [S1..Sk]) returns the lists that extend_one
\* called on S1, then S2, ... in order produces, and each source's indices
\* are shifted by D's initial vertex count plus the vertex counts of the
\* sources before it.
C3_AsClaimed ==
    (call.op = "extend" /\ pc = "idle") =>
        /\ self = Sequential(Dest0, call.items, overflow_checks).self
        /\ self = ExactMerge(Dest0, call.items)

\* C3 (bulk merge equals sequential merge), amended: whenever extend returns,
\* its lists are those of the sequential extend_one calls, which return too;
\* and provided D's vertex count plus the sources' total vertex count stays
\* below 2^32, extend returns and each source's indices are shifted by D's
\* initial vertex count plus the vertex counts of the sources before it; in
\* general an extend that returns has shifted them by that amount modulo
\* 2^32.
C3_BulkEqualsSequential ==
    /\ (call.op = "extend" /\ pc = "idle") =>
          LET seq == Sequential(Dest0, call.items, overflow_checks)
              exact == ExactMerge(Dest0, call.items)
          IN  /\ ~seq.panicked /\ self = seq.self
              /\ self.vertices = exact.vertices
              /\ self.indices =
                    [k \in 1..Len(exact.indices) |-> exact.indices[k] % IndexModulus]
    /\ (call.op = "extend" /\ FitsIndexType) =>
          /\ ~panicked
          /\ pc = "idle" => self = ExactMerge(Dest0, call.items)

\* extend returned after merging two indexed sources into a triangle.
C3_Witness ==
    /\ call.op = "extend" /\ pc = "idle"
    /\ Dest0 = Triangle
    /\ call.items = <<Sliver, Dot>>
    /\ self.indices = <<0, 1, 2, 3, 4, 3>>

\* C4 (empty-source identity): extend_one with an empty source returns with
\* the destination unchanged; at every point of an extend call the
\* destination, the running offset and the outcome are what the loop gives
\* over the consumed sources with the empty ones left out; extend over no
\* sources changes nothing.
C4_EmptySourceIdentity ==
    /\ (call.op = "extend_one" /\ call.items = <<EmptyBuffers>>) =>
          self = Dest0 /\ ~panicked
    /\ call.op = "extend" =>
          LET st0 == [self |-> Dest0, offset |-> extend_offset_init(Dest0),
                      panicked |-> FALSE]
              ref == RunLoop(st0, NonEmptyOnly(Consumed), overflow_checks)
          IN  /\ self = ref.self
              /\ offset = ref.offset
              /\ panicked = ref.panicked
    /\ (call.op = "extend" /\ call.items = <<>>) => self = Dest0 /\ ~panicked

\* extend returned after an empty source followed by a triangle.
C4_Witness ==
    /\ call.op = "extend" /\ pc = "idle"
    /\ call.items = <<EmptyBuffers, Triangle>>
    /\ Dest0 = Triangle
    /\ self.indices = <<0, 1, 2, 3, 4, 5>>

\* C5 (assembly consistency): the mesh convert returns is a triangle list
\* whose position and color attributes have one entry per vertex, entry k
\* being the k-th vertex's position and color, and whose indices are the
\* buffer pair's indices in order; so with valid input every mesh index is
\* less than the mesh's vertex count.
C5_AssemblyConsistency ==
    call.op = "convert" =>
        LET positions == attribute(mesh, "Vertex_Position")
            colors == attribute(mesh, "Vertex_Color")
        IN  /\ mesh.primitive_topology = "TriangleList"
            /\ has_attribute(mesh, "Vertex_Position")
            /\ has_attribute(mesh, "Vertex_Color")
            /\ Len(positions) = Len(Dest0.vertices)
            /\ Len(colors) = Len(Dest0.vertices)
            /\ \A k \in 1..Len(Dest0.vertices) :
                  /\ positions[k] = Dest0.vertices[k].position
                  /\ colors[k] = Dest0.vertices[k].color
            /\ mesh.indices = [U32 |-> Dest0.indices]
            /\ ValidBuffers(Dest0) =>
                  \A k \in 1..Len(mesh.indices.U32) : mesh.indices.U32[k] < Len(positions)

\* A merged pair of two triangles was converted.
C5_Witness ==
    /\ call.op = "convert" /\ pc = "converted"
    /\ Len(Dest0.vertices) = 6
    /\ mesh.indices = [U32 |-> <<0, 1, 2, 3, 4, 5>>]

\* C7 as claimed: extend_one and extend complete normally for every
\* destination and every sequence of sources; nothing aborts the merge.
C7_AsClaimed == ~panicked

\* C7 (merge is total), amended: the merge operations return no error and
\* check nothing themselves; they complete normally whenever the
\* destination's vertex count plus the sources' total vertex count stays
\* below 2^32, and in every case in a build without overflow checks (the
\* indices then wrap).  A merge aborts only in a build with overflow checks,
\* by the panic of a u32 addition whose result reaches 2^32.
C7_TotalUnlessOverflowChecked ==
    /\ panicked =>
          /\ overflow_checks
          /\ call.op \in {"extend_one", "extend"}
          /\ ~FitsIndexType
    /\ (call.op = "extend" /\ ~panicked /\ pc = "extend_loop") => ENABLED (ExtendLoop \/ ExtendReturn)

\* Without overflow checks an extend call returned although the
\* destination's vertex count plus a source index exceeded the index range.
C7_Witness ==
    /\ ~overflow_checks
    /\ call.op = "extend" /\ pc = "idle" /\ ~panicked
    /\ N0 = 6 /\ call.items = <<Triangle, Dot>>
    /\ self.indices = Dest0.indices \o <<6, 7, 0>>

--------------------------------------------------------------------------
(* VertexConstructor *)

NoCtor == [none |-> TRUE]

\* bevy Color, its Rgba (sRGB) and RgbaLinear variants; channels are levels
\* 0..2 standing for 0.0, 0.5, 1.0.
Color(space, r, g, b, a) == [space |-> space, rgba |-> <<r, g, b, a>>]
Colors == {Color("Rgba", 2, 1, 0, 2), Color("RgbaLinear", 2, 1, 0, 2)}

\* The sRGB decoding curve on the levels: fixes both ends, darkens between.
nonlinear_to_linear(x) == (x * x) \div 2

\* Color::as_linear_rgba_f32
as_linear_rgba_f32(c) ==
    IF c.space = "Rgba"
    THEN <<nonlinear_to_linear(c.rgba[1]), nonlinear_to_linear(c.rgba[2]),
           nonlinear_to_linear(c.rgba[3]), c.rgba[4]>>
    ELSE c.rgba

\* bevy Transform; the rotation is a number of quarter turns about z.
Transform(translation, rotation, scale) ==
    [translation |-> translation, rotation |-> rotation, scale |-> scale]
Transforms == {Transform(<<0, 0, 0>>, 0, <<1, 1, 1>>),
               Transform(<<1, 0, 2>>, 1, <<2, 3, 1>>)}

Rotate(q, v) ==
    CASE q = 0 -> v
      [] q = 1 -> <<0 - v[2], v[1], v[3]>>
      [] q = 2 -> <<0 - v[1], 0 - v[2], v[3]>>
      [] q = 3 -> <<v[2], 0 - v[1], v[3]>>

\* `transform * Vec3`: scale, rotate, translate.
mul_vec3(t, v) ==
    LET scaled == <<t.scale[1] * v[1], t.scale[2] * v[2], t.scale[3] * v[3]>>
        turned == Rotate(t.rotation, scaled)
    IN  <<turned[1] + t.translation[1], turned[2] + t.translation[2],
          turned[3] + t.translation[3]>>

\* VertexConstructor { color, transform }
VertexConstructor(color, transform) == [color |-> color, transform |-> transform]
Constructors == {VertexConstructor(c, t) : c \in Colors, t \in Transforms}

\* The 2D points a tessellator hands to new_vertex.
Points == {<<1, 2>>, <<2, 0>>}

\* FillVertexConstructor::new_vertex(&mut self, vertex: FillVertex); the
\* point is vertex.position().  Returns the vertex and the constructor as
\* the call leaves it.
fill_new_vertex(this, point) ==
    LET pos == mul_vec3(this.transform, <<point[1], point[2], 0>>)
    IN  [self |-> this,
         vertex |-> Vertex(<<pos[1], pos[2], pos[3]>>, as_linear_rgba_f32(this.color))]

\* The stroke variant storing the point without applying the transform.
stroke_new_vertex_untransformed(this, point) ==
    [self |-> this,
     vertex |-> Vertex(<<point[1], point[2], 0>>, as_linear_rgba_f32(this.color))]

\* StrokeVertexConstructor::new_vertex(&mut self, vertex: StrokeVertex)
stroke_new_vertex(this, point) ==
    LET pos == mul_vec3(this.transform, <<point[1], point[2], 0>>)
    IN  [self |-> this,
         vertex |-> Vertex(<<pos[1], pos[2], pos[3]>>, as_linear_rgba_f32(this.color))]

CtorIdle ==
    /\ ctor = NoCtor
    /\ log = <<>>

CtorInit ==
    /\ ctor \in Constructors
    /\ log = <<>>

LogEntry(kind, point, before, r) ==
    [kind |-> kind, point |-> point, before |-> before, after |-> r.self,
     vertex |-> r.vertex]

\* A shape's pass begins: the previous constructor is dropped and a new one
\* is built from the shape's color and transform.
Construct ==
    /\ \E c \in Constructors : c # ctor /\ ctor' = c
    /\ UNCHANGED log
    /\ UNCHANGED <<mergeVars, loadVars>>

\* The fill tessellator emits a vertex.
FillNewVertex ==
    /\ Len(log) < MaxCalls
    /\ \E point \in Points :
        LET r == fill_new_vertex(ctor, point)
        IN  /\ ctor' = r.self
            /\ log' = Append(log, LogEntry("fill", point, ctor, r))
    /\ UNCHANGED <<mergeVars, loadVars>>

\* The stroke tessellator emits a vertex.
StrokeNewVertex ==
    /\ Len(log) < MaxCalls
    /\ \E point \in Points :
        LET r == stroke_new_vertex(ctor, point)
        IN  /\ ctor' = r.self
            /\ log' = Append(log, LogEntry("stroke", point, ctor, r))
    /\ UNCHANGED <<mergeVars, loadVars>>

CtorNext ==
    \/ Construct
    \/ FillNewVertex
    \/ StrokeNewVertex

--------------------------------------------------------------------------
\* C8 (constructor determinism and context independence): any two new_vertex
\* calls, fill or stroke, earlier or later, with other shapes' constructors
\* used in between or not, that were given the same point under the same
\* (color, transform) produced the same vertex; every vertex carries the
\* linear form of its constructor's color; and every call left the
\* constructor's color and transform as they were.
C8_ConstructorDeterminism ==
    /\ \A i, j \in 1..Len(log) :
          (log[i].point = log[j].point /\ log[i].before = log[j].before)
              => log[i].vertex = log[j].vertex
    /\ \A i \in 1..Len(log) :
          /\ log[i].vertex.color = as_linear_rgba_f32(log[i].before.color)
          /\ log[i].after = log[i].before

\* A fill call, then a call under another shape's constructor, then a stroke
\* call with the first call's point and constructor.
C8_Witness ==
    /\ Len(log) = 3
    /\ log[1].kind = "fill" /\ log[3].kind = "stroke"
    /\ log[2].before # log[1].before
    /\ log[3].before = log[1].before /\ log[3].point = log[1].point
    /\ log[1].before.transform.rotation = 1

--------------------------------------------------------------------------
(* Paths *)

None == [some |-> FALSE]
Some(v) == [some |-> TRUE, value |-> v]

\* An OsStr is a sequence of units; "0xFF" is a byte that is not valid UTF-8.
\* A String is a sequence of characters.
NameValid == <<"m">>
NameInvalid == <<"m", "0xFF">>

Normal(name) == [kind |-> "Normal", name |-> name]
ParentDir == [kind |-> "ParentDir", name |-> <<".", ".">>]

\* A Path: whether it starts at the root, and its components.
Path(has_root, components) == [has_root |-> has_root, components |-> components]

\* "", "/", "m", "/m/m<FF>", "m/.."
Paths == {Path(FALSE, <<>>),
          Path(TRUE, <<>>),
          Path(FALSE, <<Normal(NameValid)>>),
          Path(TRUE, <<Normal(NameValid), Normal(NameInvalid)>>),
          Path(FALSE, <<Normal(NameValid), ParentDir>>)}

\* Path::file_name: the last component if it is a normal one.
file_name(path) ==
    LET n == Len(path.components)
    IN  IF n > 0 /\ path.components[n].kind = "Normal"
        THEN Some(path.components[n].name)
        ELSE None

\* OsStr::to_string_lossy: every invalid unit becomes U+FFFD.
to_string_lossy(os) ==
    [k \in 1..Len(os) |-> IF os[k] = "0xFF" THEN "U+FFFD" ELSE os[k]]

RECURSIVE JoinComponents(_)
JoinComponents(cs) ==
    IF cs = <<>> THEN <<>>
    ELSE IF Len(cs) = 1 THEN cs[1].name
    ELSE cs[1].name \o <<"/">> \o JoinComponents(Tail(cs))

\* path.display().to_string(): the path's text, lossily converted.
display(path) ==
    to_string_lossy((IF path.has_root THEN <<"/">> ELSE <<>>)
                    \o JoinComponents(path.components))

--------------------------------------------------------------------------
(* SvgAssetLoader::load *)

Docs == 1..NumLoads

Pending == [pending |-> TRUE]
Ok == [ok |-> TRUE]
Err(e) == [ok |-> FALSE, err |-> e]

\* SvgError variants and FileSvgError { error, path }
InvalidFileName(str) == [variant |-> "InvalidFileName", payload |-> str]
SvgError_SvgError(cause) == [variant |-> "SvgError", payload |-> <<cause>>]
FileSvgError(error, path) == [error |-> error, path |-> path]

\* Handle::default(), and the handle of a labeled asset of a path.
DefaultHandle == [path |-> None, label |-> None]
get_handle(path, label) == [path |-> Some(path), label |-> Some(label)]

\* Byte contents: one that is no SVG document, and documents of one and of
\* two filled triangles.
Bytes == {"garbage", "one_triangle", "two_triangles"}

\* Svg::from_bytes(bytes, path, fonts): the parsed document with no name and
\* no mesh yet, or the parser's error wrapped with the path.
Svg_from_bytes(b, path) ==
    IF b = "garbage"
    THEN Err(FileSvgError(SvgError_SvgError("usvg::Error"), display(path)))
    ELSE [ok |-> TRUE,
          value |-> [name |-> <<>>, mesh |-> DefaultHandle,
                     shapes |-> IF b = "one_triangle" THEN <<Triangle>>
                                ELSE <<Triangle, Triangle>>]]

\* Svg::tessellate(&self) -> Mesh: the shapes' buffers merged and converted.
Svg_tessellate(svg) == convert(Sequential(EmptyBuffers, svg.shapes, FALSE).self)

\* LoadedAsset::new(value)
LoadedAsset(v) == [value |-> v]

\* LoadContext::set_labeled_asset(label, asset): the registration, and the
\* handle it returns.
set_labeled_asset(ctx, label, asset) ==
    [ctx |-> [ctx EXCEPT !.labeled_assets =
                  Append(@, [label |-> Some(label), asset |-> asset])],
     handle |-> get_handle(ctx.path, label)]

\* LoadContext::set_default_asset(asset): registered under no label.
set_default_asset(ctx, asset) ==
    [ctx EXCEPT !.labeled_assets = Append(@, [label |-> None, asset |-> asset])]

NoLocals == [svg |-> None, mesh |-> None, mesh_handle |-> None]
NoContext == [path |-> None, labeled_assets |-> <<>>]

\* The block with the name derived only after the mesh was registered.
StatementAfter_name_derived_late(st) ==
    CASE st = "from_bytes" -> "tessellate"
      [] st = "tessellate" -> "set_labeled_asset"
      [] st = "set_labeled_asset" -> "file_name"
      [] st = "file_name" -> "set_default_asset"
      [] st = "set_default_asset" -> "done"

\* The statement that follows statement st of the async block when st does
\* not return early.
StatementAfter(st) ==
    CASE st = "from_bytes" -> "file_name"
      [] st = "file_name" -> "tessellate"
      [] st = "tessellate" -> "set_labeled_asset"
      [] st = "set_labeled_asset" -> "set_default_asset"
      [] st = "set_default_asset" -> "done"

\* `let mut svg = Svg::from_bytes(bytes, load_context.path(), None)?;`
from_bytes_statement(b, ctx) ==
    LET r == Svg_from_bytes(b, ctx.path)
    IN  IF r.ok THEN [return |-> None, svg |-> Some(r.value)]
        ELSE [return |-> Some(Err(r.err)), svg |-> None]

\* The name statement falling back to an empty name (unwrap_or_default)
\* instead of returning the error.
file_name_statement_default_name(ctx, svg) ==
    LET f == file_name(ctx.path)
    IN  [return |-> None,
         svg |-> [svg EXCEPT !.name = IF f.some THEN to_string_lossy(f.value) ELSE <<>>]]

\* `let name = &load_context.path().file_name().ok_or_else(..)?
\*  .to_string_lossy(); svg.name = name.to_string();`
file_name_statement(ctx, svg) ==
    LET f == file_name(ctx.path)
    IN  IF f.some
        THEN [return |-> None,
              svg |-> [svg EXCEPT !.name = to_string_lossy(f.value)]]
        ELSE [return |-> Some(Err(FileSvgError(InvalidFileName(display(ctx.path)),
                                               display(ctx.path)))),
              svg |-> svg]

\* The registration without `svg.mesh = mesh_handle`.
set_labeled_asset_statement_handle_dropped(ctx, svg, m) ==
    LET r == set_labeled_asset(ctx, "mesh", LoadedAsset(m))
    IN  [ctx |-> r.ctx, mesh_handle |-> r.handle, svg |-> svg]

\* `let mesh_handle = load_context.set_labeled_asset("mesh",
\*  LoadedAsset::new(mesh)); svg.mesh = mesh_handle;`
set_labeled_asset_statement(ctx, svg, m) ==
    LET r == set_labeled_asset(ctx, "mesh", LoadedAsset(m))
    IN  [ctx |-> r.ctx, mesh_handle |-> r.handle,
         svg |-> [svg EXCEPT !.mesh = r.handle]]

LoadIdle ==
    /\ lpc = [d \in Docs |-> "idle"]
    /\ bytes = [d \in Docs |-> "garbage"]
    /\ load_context = [d \in Docs |-> NoContext]
    /\ locals = [d \in Docs |-> NoLocals]
    /\ result = [d \in Docs |-> Pending]
    /\ steps = [d \in Docs |-> <<>>]

\* The asset server calls load(bytes, load_context) with a fresh context.
LoadCall(d) ==
    /\ lpc[d] = "idle"
    /\ \E b \in Bytes, p \in Paths :
        /\ bytes' = [bytes EXCEPT ![d] = b]
        /\ load_context' = [load_context EXCEPT ![d] = [path |-> p, labeled_assets |-> <<>>]]
    /\ lpc' = [lpc EXCEPT ![d] = "from_bytes"]
    /\ UNCHANGED <<locals, result, steps>>
    /\ UNCHANGED <<mergeVars, ctorVars>>

\* Falls through to the next statement, or returns early with `ret`.
Advance(d, st, ret) ==
    /\ steps' = [steps EXCEPT ![d] = Append(@, st)]
    /\ IF ret.some
       THEN /\ result' = [result EXCEPT ![d] = ret.value]
            /\ lpc' = [lpc EXCEPT ![d] = "done"]
       ELSE /\ result' = [result EXCEPT ![d] = IF StatementAfter(st) = "done" THEN Ok ELSE @]
            /\ lpc' = [lpc EXCEPT ![d] = StatementAfter(st)]

FromBytes(d) ==
    /\ lpc[d] = "from_bytes"
    /\ LET r == from_bytes_statement(bytes[d], load_context[d])
       IN  /\ locals' = [locals EXCEPT ![d].svg = r.svg]
           /\ Advance(d, "from_bytes", r.return)
    /\ UNCHANGED <<bytes, load_context>>
    /\ UNCHANGED <<mergeVars, ctorVars>>

FileName(d) ==
    /\ lpc[d] = "file_name"
    /\ LET r == file_name_statement(load_context[d], locals[d].svg.value)
       IN  /\ locals' = [locals EXCEPT ![d].svg = Some(r.svg)]
           /\ Advance(d, "file_name", r.return)
    /\ UNCHANGED <<bytes, load_context>>
    /\ UNCHANGED <<mergeVars, ctorVars>>

\* `let mesh = svg.tessellate();`
Tessellate(d) ==
    /\ lpc[d] = "tessellate"
    /\ locals' = [locals EXCEPT ![d].mesh = Some(Svg_tessellate(locals[d].svg.value))]
    /\ Advance(d, "tessellate", None)
    /\ UNCHANGED <<bytes, load_context>>
    /\ UNCHANGED <<mergeVars, ctorVars>>

SetLabeledAsset(d) ==
    /\ lpc[d] = "set_labeled_asset"
    /\ LET r == set_labeled_asset_statement(load_context[d], locals[d].svg.value,
                                            locals[d].mesh.value)
       IN  /\ load_context' = [load_context EXCEPT ![d] = r.ctx]
           /\ locals' = [locals EXCEPT ![d].svg = Some(r.svg),
                                       ![d].mesh_handle = Some(r.mesh_handle)]
    /\ Advance(d, "set_labeled_asset", None)
    /\ UNCHANGED bytes
    /\ UNCHANGED <<mergeVars, ctorVars>>

\* `load_context.set_default_asset(LoadedAsset::new(svg)); Ok(())`
SetDefaultAsset(d) ==
    /\ lpc[d] = "set_default_asset"
    /\ load_context' = [load_context EXCEPT ![d] =
            set_default_asset(@, LoadedAsset(locals[d].svg.value))]
    /\ Advance(d, "set_default_asset", None)
    /\ UNCHANGED <<bytes, locals>>
    /\ UNCHANGED <<mergeVars, ctorVars>>

LoadNext ==
    \/ \E d \in Docs : LoadCall(d)
    \/ \E d \in Docs : FromBytes(d)
    \/ \E d \in Docs : FileName(d)
    \/ \E d \in Docs : Tessellate(d)
    \/ \E d \in Docs : SetLabeledAsset(d)
    \/ \E d \in Docs : SetDefaultAsset(d)

--------------------------------------------------------------------------
(* Claims about load *)

PathOf(d) == load_context[d].path
Returned(d) == lpc[d] = "done"
ReturnedErr(d) == Returned(d) /\ result[d] # Ok
Registered(d) == load_context[d].labeled_assets

\* The FileSvgError load builds for a path without a filename.
InvalidIdentity(path) == Err(FileSvgError(InvalidFileName(display(path)), display(path)))

\* C6 as claimed: a load whose path has no filename component returns the
\* InvalidFileName error carrying the path string, whatever the bytes.
C6_AsClaimed ==
    \A d \in Docs :
        (Returned(d) /\ ~file_name(PathOf(d)).some) => result[d] = InvalidIdentity(PathOf(d))

\* C6 (missing filename), amended: a load whose path has no filename
\* component never returns Ok, never registers an asset and never names
\* the document; when the bytes parse it returns the InvalidFileName error
\* carrying the path string, and when they do not it returns the parse
\* error of Svg::from_bytes, which is called first.
C6_MissingFilename ==
    \A d \in Docs :
        (lpc[d] # "idle" /\ ~file_name(PathOf(d)).some) =>
            /\ lpc[d] \in {"from_bytes", "file_name", "done"}
            /\ Registered(d) = <<>>
            /\ locals[d].svg.some => locals[d].svg.value.name = <<>>
            /\ Returned(d) =>
                  /\ result[d] # Ok
                  /\ result[d] = IF Svg_from_bytes(bytes[d], PathOf(d)).ok
                                 THEN InvalidIdentity(PathOf(d))
                                 ELSE Svg_from_bytes(bytes[d], PathOf(d))

\* A load of a parsable document under the root path returned the
\* InvalidFileName error.
C6_Witness ==
    \E d \in Docs :
        /\ Returned(d)
        /\ PathOf(d) = Path(TRUE, <<>>)
        /\ bytes[d] = "one_triangle"
        /\ steps[d] = <<"from_bytes", "file_name">>
        /\ result[d].err.error.variant = "InvalidFileName"
        /\ result[d].err.error.payload = <<"/">>

\* What every load that returned Ok has done, but for the document's name.
SuccessfulLoad(d) ==
    /\ steps[d] = <<"from_bytes", "file_name", "tessellate", "set_labeled_asset",
                    "set_default_asset">>
    /\ Len(Registered(d)) = 2
    /\ Registered(d)[1].label = Some("mesh")
    /\ Registered(d)[1].asset = LoadedAsset(Svg_tessellate(locals[d].svg.value))
    /\ Registered(d)[1].asset = LoadedAsset(locals[d].mesh.value)
    /\ Registered(d)[2].label = None
    /\ LET record == Registered(d)[2].asset.value
       IN  /\ record.mesh = locals[d].mesh_handle.value
           /\ record.mesh = get_handle(PathOf(d), "mesh")
           /\ record.mesh # DefaultHandle
           /\ record.shapes = Svg_from_bytes(bytes[d], PathOf(d)).value.shapes

\* C9 as claimed: a load that returned Ok ran parse, name derivation,
\* tessellation, registration of "mesh" and registration of the default
\* asset in that order, registered exactly one mesh and one record, and the
\* record's name is the path's filename and its mesh the handle returned for
\* this load's mesh.
C9_AsClaimed ==
    \A d \in Docs :
        (Returned(d) /\ result[d] = Ok) =>
            /\ SuccessfulLoad(d)
            /\ file_name(PathOf(d)).some
            /\ Registered(d)[2].asset.value.name = file_name(PathOf(d)).value

\* C9 (successful load sequence), amended: as claimed, except that the
\* record's name is the path's filename converted lossily to a string: the
\* filename itself when it is valid Unicode, and otherwise the filename
\* with every invalid unit replaced by U+FFFD.
C9_SuccessfulLoad ==
    \A d \in Docs :
        (Returned(d) /\ result[d] = Ok) =>
            /\ SuccessfulLoad(d)
            /\ file_name(PathOf(d)).some
            /\ LET fname == file_name(PathOf(d)).value
                   name == Registered(d)[2].asset.value.name
               IN  /\ Len(name) = Len(fname)
                   /\ \A k \in 1..Len(fname) :
                         name[k] = IF fname[k] = "0xFF" THEN "U+FFFD" ELSE fname[k]
                   /\ ("0xFF" \notin {fname[k] : k \in 1..Len(fname)}) => name = fname

\* A load of two triangles under a path with a valid filename returned Ok.
C9_Witness ==
    \E d \in Docs :
        /\ Returned(d) /\ result[d] = Ok
        /\ bytes[d] = "two_triangles"
        /\ PathOf(d) = Path(FALSE, <<Normal(NameValid)>>)
        /\ Registered(d)[2].asset.value.name = <<"m">>
        /\ Len(attribute(Registered(d)[1].asset.value, "Vertex_Position")) = 6

\* C10 (failed load registers nothing): a load that returned an error
\* returned it as its result, carrying the path; it registered neither the
\* "mesh" asset nor the default asset and tessellated nothing; and the
\* statement that fails changes nothing of any other load.
C10_FailedLoadRegistersNothing ==
    /\ [](\A d \in Docs :
            ReturnedErr(d) =>
                /\ result[d].ok = FALSE
                /\ result[d].err.path = display(PathOf(d))
                /\ result[d].err.error.variant \in {"SvgError", "InvalidFileName"}
                /\ Registered(d) = <<>>
                /\ locals[d].mesh = None /\ locals[d].mesh_handle = None
                /\ \A k \in 1..Len(steps[d]) : steps[d][k] \in {"from_bytes", "file_name"})
    /\ [][\A d \in Docs :
            (~ReturnedErr(d) /\ ReturnedErr(d)') =>
                \A e \in Docs \ {d} :
                    /\ lpc'[e] = lpc[e] /\ bytes'[e] = bytes[e]
                    /\ load_context'[e] = load_context[e]
                    /\ locals'[e] = locals[e]
                    /\ result'[e] = result[e] /\ steps'[e] = steps[e]]_vars

\* One load failed on a missing filename, another on unparsable bytes.
C10_Witness ==
    \E d, e \in Docs :
        /\ ReturnedErr(d) /\ result[d].err.error.variant = "InvalidFileName"
        /\ ReturnedErr(e) /\ result[e].err.error.variant = "SvgError"
        /\ bytes[d] = "two_triangles"

--------------------------------------------------------------------------
(* Specifications *)

MergeIdle ==
    /\ overflow_checks = FALSE
    /\ self = EmptyBuffers
    /\ iter = <<>>
    /\ offset = 0
    /\ pc = "idle"
    /\ panicked = FALSE
    /\ mesh = NoMesh
    /\ call = NoCall

\* The merge pipeline: extend_one, extend and convert.
Init == MergeInit /\ CtorIdle /\ LoadIdle
Next == MergeNext
Spec == Init /\ [][Next]_vars

\* The vertex constructor under fill and stroke tessellation.
InitCtor == MergeIdle /\ CtorInit /\ LoadIdle
SpecCtor == InitCtor /\ [][CtorNext]_vars

\* Concurrent loads of NumLoads documents.
InitLoad == MergeIdle /\ CtorIdle /\ LoadIdle
SpecLoad == InitLoad /\ [][LoadNext]_vars

==========================================================================
